---- MODULE Spec2Model ----
(***************************************************************************)
(* State-machine model of restG4's physics-list resolution and assembly:   *)
(* PhysicsList::PhysicsList / InitializePhysicsLists / ConstructParticle / *)
(* ConstructProcess / SetCuts (src/src/PhysicsList.cxx) as they are driven *)
(* by Application::Run (src/src/Application.cxx).                           *)
(***************************************************************************)
EXTENDS Integers, Sequences, FiniteSets, TLC

(* ------------------------------------------------------------------ *)
(* Bounds of the model                                                 *)
(* ------------------------------------------------------------------ *)

\* longest list of <physicsList> declarations explored by Spec
MaxLen == 3

\* longest list of declarations explored together with module options
MaxOptLen == 2

\* longest list of declarations explored together with particle universes
MaxPartLen == 1

\* longest list of declarations explored together with every verbosity level
MaxVerbLen == 2

\* longest repetition-free list of declarations explored by SpecOrder
MaxOrderLen == 5

\* longest list of ion names with a step limiter
MaxIonLen == 2

\* most runs of InitializePhysicsLists on one PhysicsList
MaxInitRuns == 2

\* longest list of declarations explored together with the numbers of events
MaxRunLen == 2

(* ------------------------------------------------------------------ *)
(* Names used by the code                                              *)
(* ------------------------------------------------------------------ *)

Null == "nullptr"

DecayName == "G4DecayPhysics"

RadDecPhysicsName == "G4RadioactiveDecayPhysics"

\* the four electromagnetic lists, in the order InitializePhysicsLists probes them
EmNames ==
    << "G4EmLivermorePhysics", "G4EmPenelopePhysics",
       "G4EmStandardPhysics_option3", "G4EmStandardPhysics_option4" >>

\* the five hadronic lists, in the order InitializePhysicsLists probes them
HadronNames ==
    << "G4HadronPhysicsQGSP_BIC_HP", "G4IonBinaryCascadePhysics",
       "G4HadronElasticPhysicsHP", "G4NeutronTrackingCut", "G4EmExtraPhysics" >>

\* the <physicsList> entry that carries the radioactive-decay settings
RadioactiveDecayEntry == "G4RadioactiveDecay"

\* a declared name the code never probes
UnknownNames == { "G4OpticalPhysics" }

Range(s) == { s[i] : i \in DOMAIN s }

EmNameSet == Range(EmNames)

HadronNameSet == Range(HadronNames)

\* names InitializePhysicsLists probes (the module registry)
RegistryNames == { DecayName, RadDecPhysicsName } \cup EmNameSet \cup HadronNameSet

\* every name a configuration of the model may declare
DeclarableNames == RegistryNames \cup { RadioactiveDecayEntry } \cup UnknownNames

\* TRestStringOutput::REST_Verbose_Level
REST_Silent == 0

REST_Essential == 1

REST_Warning == 2

REST_Info == 3

REST_Debug == 4

REST_Extreme == 5

VerboseLevels == REST_Silent .. REST_Extreme

(* ------------------------------------------------------------------ *)
(* Module options                                                      *)
(* ------------------------------------------------------------------ *)

NotDefined == "NotDefined"

EmOptionKeys == { "pixe", "fluo", "auger" }

RadDecOptionKeys == { "ICM", "ARM" }

OptionKeys == EmOptionKeys \cup RadDecOptionKeys

\* an option is either absent from the declaration or carries one of these texts
OptionTexts == { "true", "false" }

Unset == "<unset>"

NoOptions == [ k \in OptionKeys |-> Unset ]

(* ------------------------------------------------------------------ *)
(* Particles of the engine                                             *)
(* ------------------------------------------------------------------ *)

\* named (non-ion) species, in the order the particle iterator visits them
NamedParticles == << "e+", "e-", "gamma", "mu+", "mu-", "neutron", "proton" >>

NamedParticleSet == Range(NamedParticles)

Geantino == "geantino"

(* ------------------------------------------------------------------ *)
(* State                                                               *)
(* ------------------------------------------------------------------ *)

VARIABLES
    config,            \* TRestGeant4PhysicsLists: declared names, in order
    options,           \* TRestGeant4PhysicsLists: options of the first declaration of a name
    verbose,           \* TRestGeant4PhysicsLists::GetVerboseLevel()
    ionStepList,       \* TRestGeant4PhysicsLists::GetIonStepList()
    cuts,              \* TRestGeant4PhysicsLists: cut lengths and energy window
    cutsConfigured,    \* the cut parameters the configuration file sets itself
    commandLineParameters, \* the nEvents and nThreads Run is called with
    engineParticles,   \* named species the engine's modules define when constructed
    pc,                \* position of Application::Run
    exitStatus,        \* status given to exit(), or -1 while the process runs
    fDecPhysicsList,
    fRadDecPhysicsList,
    fEmPhysicsList,
    fEmPhysicsListName,
    fHadronPhys,
    emCounter,         \* InitializePhysicsLists' local counter, as last left
    initRuns,          \* how often InitializePhysicsLists has run on the object
    cerr,              \* messages written to std::cerr
    restWarning,       \* messages written through RESTWarning
    g4cout,            \* messages written to G4cout / std::cout
    calls,             \* engine-facing calls, in the order they were made
    cutCalls,          \* SetCutsWithDefault / SetCutValue calls, in order
    energyRange,       \* G4ProductionCutsTable energy range, <<>> until set
    particleTable,     \* species defined in the engine
    emParams,          \* /process/em/{fluo,auger,pixe} as last applied
    runCommands,       \* UI commands Application::Run applies after Initialize
    numberOfEvents,    \* TRestGeant4Metadata::GetNumberOfEvents()
    runManager         \* the run manager Run has created: its type and thread count

inputs == << config, options, verbose, ionStepList, cuts, cutsConfigured,
             commandLineParameters, engineParticles >>

fields == << fDecPhysicsList, fRadDecPhysicsList, fEmPhysicsList, fEmPhysicsListName,
             fHadronPhys, emCounter, initRuns >>

streams == << cerr, restWarning, g4cout >>

engine == << calls, cutCalls, energyRange, particleTable, emParams >>

host == << runCommands, numberOfEvents, runManager >>

vars == << inputs, pc, exitStatus, fields, streams, engine, host >>


(* ------------------------------------------------------------------ *)
(* TRestGeant4PhysicsLists accessors, as PhysicsList.cxx uses them     *)
(* ------------------------------------------------------------------ *)

\* index (from 0) of the first declaration named name, -1 if there is none
FindPhysicsList(cfg, name) ==
    IF \E i \in DOMAIN cfg : cfg[i] = name
    THEN (CHOOSE i \in DOMAIN cfg :
              cfg[i] = name /\ \A j \in DOMAIN cfg : cfg[j] = name => i <= j) - 1
    ELSE -1

\* a mutant of IsEnabled: the index is used as a truth value
IsEnabledTruthy(cfg, name) == FindPhysicsList(cfg, name) # 0

\* the test "FindPhysicsList(name) >= 0" of InitializePhysicsLists
IsEnabled(cfg, name) == FindPhysicsList(cfg, name) >= 0

\* the test "if (FindPhysicsList("G4RadioactiveDecay"))" of ConstructProcess:
\* the int is converted to bool, so every index but 0 passes, -1 included
RadioactiveDecayTest(cfg) == FindPhysicsList(cfg, RadioactiveDecayEntry) # 0

\* option value of the first declaration named name, or the default
GetPhysicsListOptionValue(cfg, opts, name, key, default) ==
    IF FindPhysicsList(cfg, name) = -1 THEN default
    ELSE IF opts[name][key] = Unset THEN default
    ELSE opts[name][key]

\* REST's StringToBool on the option texts
StringToBool(text) == text = "true"

\* (b ? "true" : "false")
BoolToString(b) == IF b THEN "true" ELSE "false"

(* ------------------------------------------------------------------ *)
(* Messages: a message is the sequence of its words                    *)
(* ------------------------------------------------------------------ *)

MsgDecayNotEnabled ==
    << "restG4.", "PhysicsList.", "G4DecayPhysics", "is", "not", "enabled!!" >>

MsgRadDecNotEnabled ==
    << "restG4.", "PhysicsList.", "G4RadioactiveDecayPhysics", "is", "not", "enabled!!" >>

MsgNoEm ==
    << "PhysicsList:", "No", "EM", "physics", "list", "has", "been", "enabled" >>

MsgMoreThanOneEm ==
    << "PhysicsList:", "More", "than", "1", "EM", "PhysicsList", "enabled." >>

MsgHadronCount(n) ==
    << "Number", "of", "hadronic", "physics", "lists", "added", ToString(n) >>

MsgSettingEmOption(path, value, listName) ==
    << "Setting", "EM", "option", path, "to", value, "for", "physics", "list", listName >>

MsgOptionNotDefined(key) ==
    << "PhysicsList", "G4RadioactiveDecay", "option", key, "not", "defined" >>

MsgFoundIon(name, Z, A) ==
    << "Found", "ion:", name, "Z", ToString(Z), "A", ToString(A) >>

(* ------------------------------------------------------------------ *)
(* PhysicsList::InitializePhysicsLists                                 *)
(* ------------------------------------------------------------------ *)

\* a mutant of EmBlock: the counter is advanced only when the list is kept
EmBlockCountKept(cfg, s, name) ==
    IF IsEnabled(cfg, name) /\ s.fEmPhysicsList = Null
    THEN [ fEmPhysicsList     |-> name,
           fEmPhysicsListName |-> name,
           emCounter          |-> s.emCounter + 1,
           created            |-> Append(s.created, name) ]
    ELSE s

\* a mutant of EmBlock: the remembered name is not set
EmBlockNoName(cfg, s, name) ==
    IF IsEnabled(cfg, name)
    THEN [ fEmPhysicsList     |-> IF s.fEmPhysicsList = Null THEN name ELSE s.fEmPhysicsList,
           fEmPhysicsListName |-> s.fEmPhysicsListName,
           emCounter          |-> s.emCounter + 1,
           created            |-> IF s.fEmPhysicsList = Null
                                  THEN Append(s.created, name) ELSE s.created ]
    ELSE s

\* a mutant of EmBlock: the counter advances once for every declaration of the name
EmBlockCountDeclarations(cfg, s, name) ==
    IF IsEnabled(cfg, name)
    THEN [ fEmPhysicsList     |-> IF s.fEmPhysicsList = Null THEN name ELSE s.fEmPhysicsList,
           fEmPhysicsListName |-> IF s.fEmPhysicsList = Null THEN name ELSE s.fEmPhysicsListName,
           emCounter          |-> s.emCounter + Cardinality({ i \in DOMAIN cfg : cfg[i] = name }),
           created            |-> IF s.fEmPhysicsList = Null
                                  THEN Append(s.created, name) ELSE s.created ]
    ELSE s

\* one of the four "if (FindPhysicsList(emPhysicsListName) >= 0) { ... }" blocks
EmBlock(cfg, s, name) ==
    IF IsEnabled(cfg, name)
    THEN [ fEmPhysicsList     |-> IF s.fEmPhysicsList = Null THEN name ELSE s.fEmPhysicsList,
           fEmPhysicsListName |-> IF s.fEmPhysicsList = Null THEN name ELSE s.fEmPhysicsListName,
           emCounter          |-> s.emCounter + 1,
           created            |-> IF s.fEmPhysicsList = Null
                                  THEN Append(s.created, name) ELSE s.created ]
    ELSE s

RECURSIVE EmScan(_, _, _)
\* the first k electromagnetic blocks, run from state s
EmScan(cfg, s, k) ==
    IF k = 0 THEN s ELSE EmBlock(cfg, EmScan(cfg, s, k - 1), EmNames[k])

\* a mutant of HadronBlock: one object is pushed for every declaration of the name
HadronBlockEveryDeclaration(cfg, had, name) ==
    had \o SelectSeq(cfg, LAMBDA n : n = name)

\* one of the five "if (FindPhysicsList(name) >= 0) fHadronPhys.push_back(...)" blocks
HadronBlock(cfg, had, name) ==
    IF IsEnabled(cfg, name) THEN Append(had, name) ELSE had

RECURSIVE HadronScan(_, _, _)
\* the first k hadronic blocks, run from vector had
HadronScan(cfg, had, k) ==
    IF k = 0 THEN had ELSE HadronBlock(cfg, HadronScan(cfg, had, k - 1), HadronNames[k])

\* a mutant of ExclusivityFails: the conflict is not fatal
ExclusivityNeverFails(counter) == FALSE

\* "if (emCounter > 1) { cerr << ...; exit(1); }"
ExclusivityFails(counter) == counter > 1

\* a mutant of NoEmWarningDue: the verbosity gate is dropped
NoEmWarningDueUngated(vb, counter) == counter = 0

\* the condition of the "No EM physics list has been enabled" warning
NoEmWarningDue(vb, counter) == vb >= REST_Essential /\ counter = 0

\* a mutant of InitializePhysicsLists: the hadronic lists are created before the
\* exclusivity test
InitializePhysicsListsHadronFirst(cfg, vb, cur) ==
    LET decFound == IsEnabled(cfg, DecayName)
        radFound == IsEnabled(cfg, RadDecPhysicsName)
        em == EmScan(cfg,
                     [ fEmPhysicsList     |-> cur.fEmPhysicsList,
                       fEmPhysicsListName |-> cur.fEmPhysicsListName,
                       emCounter          |-> 0,
                       created            |-> << >> ],
                     Len(EmNames))
        fatal == ExclusivityFails(em.emCounter)
        had == HadronScan(cfg, cur.fHadronPhys, Len(HadronNames))
    IN  [ fDecPhysicsList    |-> IF decFound THEN DecayName ELSE cur.fDecPhysicsList,
          fRadDecPhysicsList |-> IF radFound THEN RadDecPhysicsName ELSE cur.fRadDecPhysicsList,
          fEmPhysicsList     |-> em.fEmPhysicsList,
          fEmPhysicsListName |-> em.fEmPhysicsListName,
          emCounter          |-> em.emCounter,
          fHadronPhys        |-> had,
          created            |-> (IF decFound THEN << DecayName >> ELSE << >>)
                                 \o (IF radFound THEN << RadDecPhysicsName >> ELSE << >>)
                                 \o em.created
                                 \o SubSeq(had, Len(cur.fHadronPhys) + 1, Len(had)),
          g4cout             |-> (IF ~decFound /\ vb >= REST_Debug
                                  THEN << MsgDecayNotEnabled >> ELSE << >>)
                                 \o (IF ~radFound /\ vb >= REST_Debug
                                     THEN << MsgRadDecNotEnabled >> ELSE << >>)
                                 \o (IF fatal THEN << >> ELSE << MsgHadronCount(Len(had)) >>),
          restWarning        |-> IF NoEmWarningDue(vb, em.emCounter)
                                 THEN << MsgNoEm >> ELSE << >>,
          cerr               |-> IF fatal THEN << MsgMoreThanOneEm >> ELSE << >>,
          exit               |-> IF fatal THEN 1 ELSE -1 ]

\* a mutant of InitializePhysicsLists: a decay or radioactive-decay object is created
\* for every declaration of the name
InitializePhysicsListsPerDeclaration(cfg, vb, cur) ==
    LET decFound == IsEnabled(cfg, DecayName)
        radFound == IsEnabled(cfg, RadDecPhysicsName)
        em == EmScan(cfg,
                     [ fEmPhysicsList     |-> cur.fEmPhysicsList,
                       fEmPhysicsListName |-> cur.fEmPhysicsListName,
                       emCounter          |-> 0,
                       created            |-> << >> ],
                     Len(EmNames))
        fatal == ExclusivityFails(em.emCounter)
        had == IF fatal THEN cur.fHadronPhys
               ELSE HadronScan(cfg, cur.fHadronPhys, Len(HadronNames))
    IN  [ fDecPhysicsList    |-> IF decFound THEN DecayName ELSE cur.fDecPhysicsList,
          fRadDecPhysicsList |-> IF radFound THEN RadDecPhysicsName ELSE cur.fRadDecPhysicsList,
          fEmPhysicsList     |-> em.fEmPhysicsList,
          fEmPhysicsListName |-> em.fEmPhysicsListName,
          emCounter          |-> em.emCounter,
          fHadronPhys        |-> had,
          created            |-> SelectSeq(cfg, LAMBDA n : n = DecayName)
                                 \o SelectSeq(cfg, LAMBDA n : n = RadDecPhysicsName)
                                 \o em.created
                                 \o SubSeq(had, Len(cur.fHadronPhys) + 1, Len(had)),
          g4cout             |-> (IF ~decFound /\ vb >= REST_Debug
                                  THEN << MsgDecayNotEnabled >> ELSE << >>)
                                 \o (IF ~radFound /\ vb >= REST_Debug
                                     THEN << MsgRadDecNotEnabled >> ELSE << >>)
                                 \o (IF fatal THEN << >> ELSE << MsgHadronCount(Len(had)) >>),
          restWarning        |-> IF NoEmWarningDue(vb, em.emCounter)
                                 THEN << MsgNoEm >> ELSE << >>,
          cerr               |-> IF fatal THEN << MsgMoreThanOneEm >> ELSE << >>,
          exit               |-> IF fatal THEN 1 ELSE -1 ]

\* the whole of InitializePhysicsLists run on an object whose members are cur;
\* exit is the status given to exit(), or -1 when the function returns
InitializePhysicsLists(cfg, vb, cur) ==
    LET decFound == IsEnabled(cfg, DecayName)
        radFound == IsEnabled(cfg, RadDecPhysicsName)
        em == EmScan(cfg,
                     [ fEmPhysicsList     |-> cur.fEmPhysicsList,
                       fEmPhysicsListName |-> cur.fEmPhysicsListName,
                       emCounter          |-> 0,
                       created            |-> << >> ],
                     Len(EmNames))
        fatal == ExclusivityFails(em.emCounter)
        had == IF fatal THEN cur.fHadronPhys
               ELSE HadronScan(cfg, cur.fHadronPhys, Len(HadronNames))
    IN  [ fDecPhysicsList    |-> IF decFound THEN DecayName ELSE cur.fDecPhysicsList,
          fRadDecPhysicsList |-> IF radFound THEN RadDecPhysicsName ELSE cur.fRadDecPhysicsList,
          fEmPhysicsList     |-> em.fEmPhysicsList,
          fEmPhysicsListName |-> em.fEmPhysicsListName,
          emCounter          |-> em.emCounter,
          fHadronPhys        |-> had,
          created            |-> (IF decFound THEN << DecayName >> ELSE << >>)
                                 \o (IF radFound THEN << RadDecPhysicsName >> ELSE << >>)
                                 \o em.created
                                 \o SubSeq(had, Len(cur.fHadronPhys) + 1, Len(had)),
          g4cout             |-> (IF ~decFound /\ vb >= REST_Debug
                                  THEN << MsgDecayNotEnabled >> ELSE << >>)
                                 \o (IF ~radFound /\ vb >= REST_Debug
                                     THEN << MsgRadDecNotEnabled >> ELSE << >>)
                                 \o (IF fatal THEN << >> ELSE << MsgHadronCount(Len(had)) >>),
          restWarning        |-> IF NoEmWarningDue(vb, em.emCounter)
                                 THEN << MsgNoEm >> ELSE << >>,
          cerr               |-> IF fatal THEN << MsgMoreThanOneEm >> ELSE << >>,
          exit               |-> IF fatal THEN 1 ELSE -1 ]

\* the members of a PhysicsList before its constructor body runs (PhysicsList.h)
FreshMembers ==
    [ fDecPhysicsList    |-> Null,
      fRadDecPhysicsList |-> Null,
      fEmPhysicsList     |-> Null,
      fEmPhysicsListName |-> "",
      fHadronPhys        |-> << >> ]

\* an engine-facing call
Call(op, who, arg) == [ op |-> op, who |-> who, arg |-> arg ]

\* "new X()" for every module object InitializePhysicsLists creates
NewCalls(created) == [ i \in DOMAIN created |-> Call("new", created[i], "") ]

\* the four G4UnitDefinition objects and the loss-table manager of the constructor
CtorPrologue ==
    << Call("new", "G4UnitDefinition", "minute"),
       Call("new", "G4UnitDefinition", "hour"),
       Call("new", "G4UnitDefinition", "day"),
       Call("new", "G4UnitDefinition", "year"),
       Call("Instance", "G4LossTableManager", "") >>

(* ------------------------------------------------------------------ *)
(* Application::Run up to line 188: events, run manager                *)
(* ------------------------------------------------------------------ *)

\* Run's constant of the same name
MaxPrimariesAllowed == 2147483647

\* a mutant of EffectiveEvents: the command line's 0 is kept
EffectiveEventsKeepZero(nEvents) == nEvents

\* the number of events the two "if"s of lines 88-93 leave in the metadata
EffectiveEvents(nEvents) == IF nEvents # 0 THEN nEvents ELSE MaxPrimariesAllowed

NoRunManager == [ type |-> "none", threads |-> 0 ]

\* the run manager of lines 162-181: a G4RunManager in serial mode and in a build
\* without the factory, a G4MTRunManager with nThreads threads otherwise
CreateRunManager(nThreads, factory) ==
    IF ~factory \/ nThreads = 0 THEN [ type |-> "G4RunManager", threads |-> 0 ]
    ELSE [ type |-> "G4MTRunManager", threads |-> nThreads ]

MsgRunManager(rm) ==
    IF rm.type = "G4MTRunManager"
    THEN << "Using MT run manager with", ToString(rm.threads), "threads" >>
    ELSE << "Using serial run manager" >>

RunPrologue ==
    /\ pc = "run"
    /\ numberOfEvents' = EffectiveEvents(commandLineParameters.nEvents)
    /\ \E factory \in BOOLEAN :
          /\ runManager' = CreateRunManager(commandLineParameters.nThreads, factory)
          /\ g4cout' = g4cout \o << MsgRunManager(runManager') >>
    /\ pc' = "start"
    /\ UNCHANGED << inputs, exitStatus, fields, cerr, restWarning, engine, runCommands >>

(* ------------------------------------------------------------------ *)
(* Application::Run, line 189: new PhysicsList(...)                    *)
(* ------------------------------------------------------------------ *)

\* a mutant of GetRestPhysicsLists: an MT run manager gets no declarations
GetRestPhysicsListsSerialOnly(rm, cfg) == IF rm.type = "G4MTRunManager" THEN << >> ELSE cfg

\* fSimulationManager.GetRestPhysicsLists(): the declarations of the configuration,
\* whichever run manager was created
GetRestPhysicsLists(rm, cfg) == cfg

PhysicsListCtor ==
    /\ pc = "start"
    /\ LET r == InitializePhysicsLists(GetRestPhysicsLists(runManager, config), verbose,
                                       FreshMembers)
       IN  /\ energyRange' = << cuts.minEnergy, cuts.maxEnergy >>
           /\ calls' = calls \o CtorPrologue
                             \o << Call("SetEnergyRange", "G4ProductionCutsTable", "") >>
                             \o NewCalls(r.created)
           /\ fDecPhysicsList' = r.fDecPhysicsList
           /\ fRadDecPhysicsList' = r.fRadDecPhysicsList
           /\ fEmPhysicsList' = r.fEmPhysicsList
           /\ fEmPhysicsListName' = r.fEmPhysicsListName
           /\ fHadronPhys' = r.fHadronPhys
           /\ emCounter' = r.emCounter
           /\ initRuns' = initRuns + 1
           /\ g4cout' = g4cout \o r.g4cout
           /\ restWarning' = restWarning \o r.restWarning
           /\ cerr' = cerr \o r.cerr
           /\ exitStatus' = r.exit
           /\ pc' = IF r.exit = -1 THEN "physicsList" ELSE "exited"
    /\ UNCHANGED << inputs, cutCalls, particleTable, emParams, host >>


\* the members as InitializePhysicsLists finds them
CurrentMembers ==
    [ fDecPhysicsList    |-> fDecPhysicsList,
      fRadDecPhysicsList |-> fRadDecPhysicsList,
      fEmPhysicsList     |-> fEmPhysicsList,
      fEmPhysicsListName |-> fEmPhysicsListName,
      fHadronPhys        |-> fHadronPhys ]

\* InitializePhysicsLists (protected, virtual) invoked again on the constructed
\* object, before the engine asks for particles
ReInitialize ==
    /\ pc = "physicsList"
    /\ initRuns < MaxInitRuns
    /\ LET r == InitializePhysicsLists(config, verbose, CurrentMembers)
       IN  /\ calls' = calls \o NewCalls(r.created)
           /\ fDecPhysicsList' = r.fDecPhysicsList
           /\ fRadDecPhysicsList' = r.fRadDecPhysicsList
           /\ fEmPhysicsList' = r.fEmPhysicsList
           /\ fEmPhysicsListName' = r.fEmPhysicsListName
           /\ fHadronPhys' = r.fHadronPhys
           /\ emCounter' = r.emCounter
           /\ initRuns' = initRuns + 1
           /\ g4cout' = g4cout \o r.g4cout
           /\ restWarning' = restWarning \o r.restWarning
           /\ cerr' = cerr \o r.cerr
           /\ exitStatus' = r.exit
           /\ pc' = IF r.exit = -1 THEN "physicsList" ELSE "exited"
    /\ UNCHANGED << inputs, cutCalls, energyRange, particleTable, emParams, host >>


(* ------------------------------------------------------------------ *)
(* PhysicsList::ConstructParticle                                      *)
(* ------------------------------------------------------------------ *)

\* "if (list) list->op();" for one optional module
IfPresent(list, op) == IF list # Null THEN << Call(op, list, "") >> ELSE << >>

\* "for (auto& h : fHadronPhys) h->op();"
ForEachHadron(had, op) == [ i \in DOMAIN had |-> Call(op, had[i], "") ]

\* a mutant of ParticleCalls: the electromagnetic list is constructed before decay
ParticleCallsEmFirst(dec, em, rad, had) ==
    << Call("GeantinoDefinition", "G4Geantino", "") >>
    \o IfPresent(em, "ConstructParticle")
    \o IfPresent(dec, "ConstructParticle")
    \o IfPresent(rad, "ConstructParticle")
    \o ForEachHadron(had, "ConstructParticle")

\* the calls of ConstructParticle, in order
ParticleCalls(dec, em, rad, had) ==
    << Call("GeantinoDefinition", "G4Geantino", "") >>
    \o IfPresent(dec, "ConstructParticle")
    \o IfPresent(em, "ConstructParticle")
    \o IfPresent(rad, "ConstructParticle")
    \o ForEachHadron(had, "ConstructParticle")

\* whether the assembly holds any module
AnyModule(dec, em, rad, had) == dec # Null \/ em # Null \/ rad # Null \/ had # << >>

ConstructParticle ==
    /\ pc = "physicsList"
    /\ calls' = calls \o ParticleCalls(fDecPhysicsList, fEmPhysicsList,
                                       fRadDecPhysicsList, fHadronPhys)
    /\ particleTable' =
           particleTable \cup { Geantino }
           \cup (IF AnyModule(fDecPhysicsList, fEmPhysicsList, fRadDecPhysicsList, fHadronPhys)
                 THEN engineParticles ELSE { })
    /\ pc' = "particles"
    /\ UNCHANGED << inputs, exitStatus, fields, streams, cutCalls, energyRange, emParams,
                    host >>

(* ------------------------------------------------------------------ *)
(* PhysicsList::ConstructProcess                                       *)
(* ------------------------------------------------------------------ *)

EmCommandPath(key) == "/process/em/" \o key

\* UI->ApplyCommand("/process/em/<key> <value>")
ApplyCommand(key, value) == Call("ApplyCommand", EmCommandPath(key), value)

\* a mutant of EmOptionDefault: PIXE defaults to true
EmOptionDefaultAllTrue(key) == "true"

\* the default handed to GetPhysicsListOptionValue for each EM option
EmOptionDefault(key) == IF key = "pixe" THEN "false" ELSE "true"

\* the text applied for one EM option: option -> bool -> "true"/"false"
EmOptionText(cfg, opts, listName, key) ==
    BoolToString(StringToBool(
        GetPhysicsListOptionValue(cfg, opts, listName, key, EmOptionDefault(key))))

\* the order in which the three options are read and applied
EmOptionOrder == << "pixe", "fluo", "auger" >>

\* the "if (fEmPhysicsList) { ... }" block of ConstructProcess
EmPart(cfg, opts, em, emName) ==
    IF em = Null THEN << >>
    ELSE << Call("ConstructProcess", em, ""),
            Call("AddModels", "fEmConfig", ""),
            ApplyCommand("fluo", "true"),
            ApplyCommand("auger", "true"),
            ApplyCommand("pixe", "true") >>
         \o [ i \in DOMAIN EmOptionOrder |->
                 ApplyCommand(EmOptionOrder[i],
                              EmOptionText(cfg, opts, emName, EmOptionOrder[i])) ]

\* the G4cout lines of the EM block
EmPartMessages(cfg, opts, em, emName) ==
    IF em = Null THEN << >>
    ELSE [ i \in DOMAIN EmOptionOrder |->
              MsgSettingEmOption(EmCommandPath(EmOptionOrder[i]),
                                 EmOptionText(cfg, opts, emName, EmOptionOrder[i]),
                                 emName) ]

\* one "ICM" / "ARM" block: the setter call, if any
RadDecFlagCalls(cfg, opts, key) ==
    LET v == GetPhysicsListOptionValue(cfg, opts, RadioactiveDecayEntry, key, NotDefined)
    IN  IF v = "true" THEN << Call("Set" \o key, RadioactiveDecayEntry, "true") >>
        ELSE IF v = "false" THEN << Call("Set" \o key, RadioactiveDecayEntry, "false") >>
        ELSE << >>

\* one "ICM" / "ARM" block: the warning, if any
RadDecFlagWarnings(cfg, opts, vb, key) ==
    LET v == GetPhysicsListOptionValue(cfg, opts, RadioactiveDecayEntry, key, NotDefined)
    IN  IF v # "true" /\ v # "false" /\ vb >= REST_Essential
        THEN << MsgOptionNotDefined(key) >> ELSE << >>

\* the "if (FindPhysicsList("G4RadioactiveDecay")) { ... }" block
RadioactiveDecayPart(cfg, opts) ==
    IF RadioactiveDecayTest(cfg)
    THEN << Call("new", RadioactiveDecayEntry, ""),
            Call("SetThresholdForVeryLongDecayTime", RadioactiveDecayEntry, "nanosecond") >>
         \o RadDecFlagCalls(cfg, opts, "ICM")
         \o RadDecFlagCalls(cfg, opts, "ARM")
    ELSE << >>

RadioactiveDecayWarnings(cfg, opts, vb) ==
    IF RadioactiveDecayTest(cfg)
    THEN RadDecFlagWarnings(cfg, opts, vb, "ICM") \o RadDecFlagWarnings(cfg, opts, vb, "ARM")
    ELSE << >>

\* a mutant of FixedLimiterTags: the mu+ branch carries the mu- tag
FixedLimiterTagsWrongMuon(particleName) ==
    (IF particleName = "e-" THEN << "e-Step" >>
     ELSE IF particleName = "e+" THEN << "e+Step" >>
     ELSE << >>)
    \o (IF particleName = "mu-" THEN << "mu-Step" >>
        ELSE IF particleName = "mu+" THEN << "mu-Step" >>
        ELSE << >>)

\* the two if / else-if pairs of the particle loop, for one particle
FixedLimiterTags(particleName) ==
    (IF particleName = "e-" THEN << "e-Step" >>
     ELSE IF particleName = "e+" THEN << "e+Step" >>
     ELSE << >>)
    \o (IF particleName = "mu-" THEN << "mu-Step" >>
        ELSE IF particleName = "mu+" THEN << "mu+Step" >>
        ELSE << >>)

RECURSIVE FixedLimiters(_, _)
\* the particle loop over the first k species of the iterator's order
FixedLimiters(table, k) ==
    IF k = 0 THEN << >>
    ELSE FixedLimiters(table, k - 1)
         \o (IF NamedParticles[k] \in table
             THEN LET tags == FixedLimiterTags(NamedParticles[k])
                  IN  [ i \in DOMAIN tags |->
                           Call("AddDiscreteProcess", NamedParticles[k], tags[i]) ]
             ELSE << >>)


\* the ion loop covers Z = 1 .. MaxZ
MaxZ == 40

\* G4IonTable's element names for Z = 1 .. 42 (the loop stops at MaxZ)
ElementSymbols ==
    << "H", "He", "Li", "Be", "B", "C", "N", "O", "F", "Ne",
       "Na", "Mg", "Al", "Si", "P", "S", "Cl", "Ar", "K", "Ca",
       "Sc", "Ti", "V", "Cr", "Mn", "Fe", "Co", "Ni", "Cu", "Zn",
       "Ga", "Ge", "As", "Se", "Br", "Kr", "Rb", "Sr", "Y", "Zr",
       "Nb", "Mo" >>

\* G4IonTable::GetIonName(Z, A) for a ground state: element name followed by A
GetIonName(Z, A) == ElementSymbols[Z] \o ToString(A)

\* lower and upper end of the A loop for one Z
FirstA(Z) == 2 * Z

\* a mutant of LastA: the A loop stops one short of 3 * Z
LastAExclusive(Z) == 3 * Z - 1

LastA(Z) == 3 * Z

\* the (Z, A) pairs of "for Z ... for A ...", as a set
IonWindow == { p \in (1 .. MaxZ) \X (2 .. 3 * MaxZ) : FirstA(p[1]) <= p[2] /\ p[2] <= LastA(p[1]) }

\* the name of every pair of the window
IonNameOf == [ p \in IonWindow |-> GetIonName(p[1], p[2]) ]

\* the iterations (Z, A, n) of the triple loop whose test
\* "GetIonStepList()[n] == GetIonName(Z, A)" succeeds
IonMatches(list) ==
    UNION { { << p[1], p[2], n >> : p \in { q \in IonWindow : IonNameOf[q] = list[n] } }
            : n \in DOMAIN list }

\* a mutant of VisitedBefore: the list is the outer loop, Z and A the inner ones
VisitedBeforeListFirst(a, b) ==
    \/ a[3] < b[3]
    \/ a[3] = b[3] /\ a[1] < b[1]
    \/ a[3] = b[3] /\ a[1] = b[1] /\ a[2] < b[2]

\* the loop visits Z ascending, then A ascending, then n ascending
VisitedBefore(a, b) ==
    \/ a[1] < b[1]
    \/ a[1] = b[1] /\ a[2] < b[2]
    \/ a[1] = b[1] /\ a[2] = b[2] /\ a[3] < b[3]

RECURSIVE InVisitOrder(_)
\* the matching iterations in the order the loop reaches them
InVisitOrder(S) ==
    IF S = { } THEN << >>
    ELSE LET first == CHOOSE a \in S : \A b \in S \ { a } : VisitedBefore(a, b)
         IN  << first >> \o InVisitOrder(S \ { first })

\* the body of the innermost "if" for every matching iteration
IonLimiters(list) ==
    LET m == InVisitOrder(IonMatches(list))
    IN  [ i \in DOMAIN m |->
             Call("AddDiscreteProcess", GetIonName(m[i][1], m[i][2]), "ionStep") ]

IonMessages(list) ==
    LET m == InVisitOrder(IonMatches(list))
    IN  [ i \in DOMAIN m |->
             MsgFoundIon(GetIonName(m[i][1], m[i][2]), m[i][1], m[i][2]) ]

\* the ions GetIon(Z, A, 0) looks up (and creates) for the matches
IonsTouched(list) == { GetIonName(a[1], a[2]) : a \in IonMatches(list) }

\* a mutant of ProcessCalls: decay is constructed before the EM list, as in ConstructParticle
ProcessCallsDecayFirst(cfg, opts, dec, em, emName, rad, had, table, list) ==
    << Call("AddTransportation", "PhysicsList", "") >>
    \o IfPresent(dec, "ConstructProcess")
    \o EmPart(cfg, opts, em, emName)
    \o IfPresent(rad, "ConstructProcess")
    \o ForEachHadron(had, "ConstructProcess")
    \o RadioactiveDecayPart(cfg, opts)
    \o FixedLimiters(table, Len(NamedParticles))
    \o IonLimiters(list)

\* a mutant of ProcessCalls: the G4RadioactiveDecay block comes before the hadronic loop
ProcessCallsSettingsBeforeHadronic(cfg, opts, dec, em, emName, rad, had, table, list) ==
    << Call("AddTransportation", "PhysicsList", "") >>
    \o EmPart(cfg, opts, em, emName)
    \o IfPresent(dec, "ConstructProcess")
    \o IfPresent(rad, "ConstructProcess")
    \o RadioactiveDecayPart(cfg, opts)
    \o ForEachHadron(had, "ConstructProcess")
    \o FixedLimiters(table, Len(NamedParticles))
    \o IonLimiters(list)

\* the calls of ConstructProcess, in order
ProcessCalls(cfg, opts, dec, em, emName, rad, had, table, list) ==
    << Call("AddTransportation", "PhysicsList", "") >>
    \o EmPart(cfg, opts, em, emName)
    \o IfPresent(dec, "ConstructProcess")
    \o IfPresent(rad, "ConstructProcess")
    \o ForEachHadron(had, "ConstructProcess")
    \o RadioactiveDecayPart(cfg, opts)
    \o FixedLimiters(table, Len(NamedParticles))
    \o IonLimiters(list)

\* G4EmParameters after the ApplyCommand calls of cs, starting from p
RECURSIVE ApplyAll(_, _)
ApplyAll(p, cs) ==
    IF cs = << >> THEN p
    ELSE LET c == Head(cs)
             q == IF c.op = "ApplyCommand"
                  THEN [ k \in EmOptionKeys |->
                            IF c.who = EmCommandPath(k) THEN c.arg ELSE p[k] ]
                  ELSE p
         IN  ApplyAll(q, Tail(cs))

ConstructProcess ==
    /\ pc = "particles"
    /\ LET cs == ProcessCalls(config, options, fDecPhysicsList, fEmPhysicsList,
                              fEmPhysicsListName, fRadDecPhysicsList, fHadronPhys,
                              particleTable, ionStepList)
       IN  /\ calls' = calls \o cs
           /\ emParams' = ApplyAll(emParams, cs)
    /\ g4cout' = g4cout
                 \o EmPartMessages(config, options, fEmPhysicsList, fEmPhysicsListName)
                 \o IonMessages(ionStepList)
    /\ restWarning' = restWarning \o RadioactiveDecayWarnings(config, options, verbose)
    /\ particleTable' = particleTable \cup IonsTouched(ionStepList)
    /\ pc' = "processes"
    /\ UNCHANGED << inputs, exitStatus, fields, cerr, cutCalls, energyRange, host >>

(* ------------------------------------------------------------------ *)
(* PhysicsList::SetCuts                                                *)
(* ------------------------------------------------------------------ *)

\* defaultCutValue = 0.1 * mm, in units of 0.1 mm
DefaultCutValue == 1

\* a cut call: the species ("" for SetCutsWithDefault) and the length in 0.1 mm
Cut(species, value) == [ species |-> species, value |-> value ]

\* a mutant of CutCalls: the neutron is set before the muons, and mu- is left out
CutCallsMuonOnce(c) ==
    << Cut("", DefaultCutValue),
       Cut("gamma", c.gamma),
       Cut("e-", c.electron),
       Cut("e+", c.positron),
       Cut("neutron", c.neutron),
       Cut("mu+", c.muon) >>

\* a mutant of CutCalls: the species are set first and the default last
CutCallsDefaultLast(c) ==
    << Cut("gamma", c.gamma),
       Cut("e-", c.electron),
       Cut("e+", c.positron),
       Cut("mu+", c.muon),
       Cut("mu-", c.muon),
       Cut("neutron", c.neutron),
       Cut("", DefaultCutValue) >>

CutCalls(c) ==
    << Cut("", DefaultCutValue),
       Cut("gamma", c.gamma),
       Cut("e-", c.electron),
       Cut("e+", c.positron),
       Cut("mu+", c.muon),
       Cut("mu-", c.muon),
       Cut("neutron", c.neutron) >>

SetCuts ==
    /\ pc = "processes"
    /\ cutCalls' = cutCalls \o CutCalls(cuts)
    /\ pc' = "initialized"
    /\ UNCHANGED << inputs, exitStatus, fields, streams, calls, energyRange,
                    particleTable, emParams, host >>

(* ------------------------------------------------------------------ *)
(* Application::Run after runManager->Initialize()                     *)
(* ------------------------------------------------------------------ *)

\* a mutant of RunEventsDue: the run may also start before the PhysicsList exists
RunEventsDueEarly == pc \in { "start", "initialized" }

\* Run reads the number of events once Initialize has returned
RunEventsDue == pc = "initialized"

MsgInvalidEvents(n) == << "Error:", "nEvents", ToString(n), "is not valid." >>

MsgNumberOfEvents(n) == << "Number of events:", ToString(n) >>

MsgVisMode == << "Entering vis mode.." >>

\* the commands of batch mode
BatchCommands(n) ==
    << "/tracking/verbose 0", "/run/initialize", "/run/beamOn " \o ToString(n) >>

VisCommand == "/control/execute macros/vis.mac"

\* a negative number of events ends the program; a positive one starts the run;
\* zero opens the session of the build (with or without G4UI_USE / G4VIS_USE)
RunEvents ==
    /\ RunEventsDue
    /\ IF numberOfEvents < 0
       THEN /\ g4cout' = g4cout \o << MsgInvalidEvents(numberOfEvents) >>
            /\ exitStatus' = 1
            /\ pc' = "exitedAfterInit"
            /\ runCommands' = runCommands
       ELSE IF numberOfEvents > 0
       THEN /\ g4cout' = g4cout \o << MsgNumberOfEvents(numberOfEvents) >>
            /\ runCommands' = runCommands \o BatchCommands(numberOfEvents)
            /\ pc' = "batch"
            /\ exitStatus' = exitStatus
       ELSE \E ui, vis \in BOOLEAN :
            /\ g4cout' = g4cout \o << MsgNumberOfEvents(numberOfEvents) >>
                                \o (IF ui THEN << MsgVisMode >> ELSE << >>)
            /\ runCommands' = runCommands \o (IF ui /\ vis THEN << VisCommand >> ELSE << >>)
            /\ pc' = "interactive"
            /\ exitStatus' = exitStatus
    /\ UNCHANGED << inputs, fields, cerr, restWarning, engine, numberOfEvents, runManager >>

(* ------------------------------------------------------------------ *)
(* Configurations and specifications                                   *)
(* ------------------------------------------------------------------ *)

\* every list of at most n declared names
Configs(n) == UNION { [ 1 .. k -> DeclarableNames ] : k \in 0 .. n }

\* the options of the declared names: every declared EM list carries emOpt,
\* the G4RadioactiveDecay entry carries rdOpt, nothing else has options
OptionsOf(cfg, emOpt, rdOpt) ==
    [ n \in DeclarableNames |->
        IF n \in Range(cfg) /\ n \in EmNameSet
        THEN [ k \in OptionKeys |-> IF k \in EmOptionKeys THEN emOpt[k] ELSE Unset ]
        ELSE IF n \in Range(cfg) /\ n = RadioactiveDecayEntry
        THEN [ k \in OptionKeys |-> IF k \in RadDecOptionKeys THEN rdOpt[k] ELSE Unset ]
        ELSE NoOptions ]

OptionChoices == OptionTexts \cup { Unset }

\* the cut block of the pandaXIII example: 1 mm everywhere, 1 keV .. 1 GeV
ExampleCuts ==
    [ minEnergy |-> 1, maxEnergy |-> 1000000,
      gamma |-> 10, electron |-> 10, positron |-> 10, muon |-> 10, neutron |-> 10 ]

\* the engine's G4EmParameters before any command
EngineEmDefaults == [ k \in EmOptionKeys |-> "engine-default" ]

\* the species whose cut the configuration can set
CutSpecies == { "gamma", "electron", "positron", "muon", "neutron" }

\* the example sets every cut parameter itself
ExampleCutsConfigured == CutSpecies

\* a serial run without a number of events on the command line
SerialCommandLine == [ nEvents |-> 0, nThreads |-> 0 ]

\* numbers of events a configuration file may carry; Run overwrites either
RmlEventCounts == { 0, 100 }

\* state at the entry of "new PhysicsList(...)" for the given inputs
InitFull(cfgs, levels, optionSets, universes, ionLists, cutSets, configuredSets, commandLines) ==
    /\ config \in cfgs
    /\ verbose \in levels
    /\ options \in optionSets
    /\ ionStepList \in ionLists
    /\ cuts \in cutSets
    /\ cutsConfigured \in configuredSets
    /\ commandLineParameters \in commandLines
    /\ numberOfEvents \in RmlEventCounts
    /\ runManager = NoRunManager
    /\ engineParticles \in universes
    /\ pc = "run"
    /\ exitStatus = -1
    /\ fDecPhysicsList = FreshMembers.fDecPhysicsList
    /\ fRadDecPhysicsList = FreshMembers.fRadDecPhysicsList
    /\ fEmPhysicsList = FreshMembers.fEmPhysicsList
    /\ fEmPhysicsListName = FreshMembers.fEmPhysicsListName
    /\ fHadronPhys = FreshMembers.fHadronPhys
    /\ emCounter = 0
    /\ initRuns = 0
    /\ cerr = << >>
    /\ restWarning = << >>
    /\ g4cout = << >>
    /\ calls = << >>
    /\ cutCalls = << >>
    /\ energyRange = << >>
    /\ particleTable = { }
    /\ emParams = EngineEmDefaults
    /\ runCommands = << >>

\* the state for configurations that vary only in declarations, verbosity, options
\* and particle universe
InitWith(cfgs, levels, emOpts, rdOpts, universes) ==
    InitFull(cfgs, levels,
             { OptionsOf(config, emOpt, rdOpt) : emOpt \in emOpts, rdOpt \in rdOpts },
             universes, { << >> }, { ExampleCuts }, { ExampleCutsConfigured },
             { SerialCommandLine })

NoEmOptions == [ k \in EmOptionKeys |-> Unset ]

NoRadDecOptions == [ k \in RadDecOptionKeys |-> Unset ]

\* every configuration up to MaxLen, at one verbosity, without options
Init ==
    InitWith(Configs(MaxLen), { REST_Warning }, { NoEmOptions }, { NoRadDecOptions },
             { NamedParticleSet })

\* configurations up to MaxVerbLen at every verbosity level
InitVerbose ==
    InitWith(Configs(MaxVerbLen), VerboseLevels, { NoEmOptions }, { NoRadDecOptions },
             { NamedParticleSet })

\* configurations up to MaxOptLen with every choice of module options
InitOptions ==
    InitWith(Configs(MaxOptLen), { REST_Essential },
             [ EmOptionKeys -> OptionChoices ], [ RadDecOptionKeys -> OptionChoices ],
             { NamedParticleSet })

\* configurations up to MaxPartLen with every particle universe
InitParticles ==
    InitWith(Configs(MaxPartLen), { REST_Essential }, { NoEmOptions }, { NoRadDecOptions },
             SUBSET NamedParticleSet)

\* names from which the repetition-free configurations are drawn
OrderPool ==
    { DecayName, RadDecPhysicsName, EmNames[1], EmNames[3],
      HadronNames[1], HadronNames[2], HadronNames[5] }

\* every list of at most n names of OrderPool that declares no name twice
OrderConfigs(n) ==
    { c \in UNION { [ 1 .. k -> OrderPool ] : k \in 0 .. n } :
        \A i, j \in DOMAIN c : c[i] = c[j] => i = j }

\* long configurations without repeated declarations
InitOrder ==
    InitWith(OrderConfigs(MaxOrderLen), { REST_Warning }, { NoEmOptions },
             { NoRadDecOptions }, { NamedParticleSet })

\* the declarations of the pandaXIII example, in file order
ExampleConfig ==
    << "G4EmLivermorePhysics", "G4HadronElasticPhysicsHP", "G4IonBinaryCascadePhysics",
       "G4HadronPhysicsQGSP_BIC_HP", "G4EmExtraPhysics", "G4DecayPhysics",
       "G4RadioactiveDecayPhysics", "G4RadioactiveDecay", "G4NeutronTrackingCut" >>

\* the options the example gives its EM list and its G4RadioactiveDecay entry
ExampleEmOptions == [ k \in EmOptionKeys |-> IF k = "pixe" THEN "false" ELSE Unset ]

ExampleRadDecOptions == [ k \in RadDecOptionKeys |-> "true" ]

\* ion names a configuration may list: inside the A loop of carbon (C12, C14, C18),
\* just outside it (C11, C19, C20), the last ion of the Z loop (Zr120) and
\* an ion beyond it (Nb90)
IonNamePool == { "C11", "C12", "C14", "C18", "C19", "C20", "Zr120", "Nb90" }

\* every ion step list of at most n names
IonLists(n) == UNION { [ 1 .. k -> IonNamePool ] : k \in 0 .. n }

\* the empty configuration and the example, with every ion step list up to MaxIonLen
InitIons ==
    InitFull({ << >>, ExampleConfig }, { REST_Essential },
             { OptionsOf(config, ExampleEmOptions, ExampleRadDecOptions) },
             { NamedParticleSet }, IonLists(MaxIonLen), { ExampleCuts },
             { ExampleCutsConfigured }, { SerialCommandLine })

\* cut lengths a getter of TRestGeant4PhysicsLists may return, in 0.1 mm:
\* 0.1 mm and 1 mm
CutLengthPool == { 1, 10 }

\* the example's energy window with every choice of the five cut lengths
CutChoices ==
    { [ minEnergy |-> ExampleCuts.minEnergy, maxEnergy |-> ExampleCuts.maxEnergy,
        gamma |-> l["gamma"], electron |-> l["electron"], positron |-> l["positron"],
        muon |-> l["muon"], neutron |-> l["neutron"] ] : l \in [ CutSpecies -> CutLengthPool ] }

\* the example's declarations with every choice of cut lengths and of the cut
\* parameters the configuration file sets (the getters return a length either way)
InitCuts ==
    InitFull({ ExampleConfig }, { REST_Essential },
             { OptionsOf(config, ExampleEmOptions, ExampleRadDecOptions) },
             { NamedParticleSet }, { << >> }, CutChoices, SUBSET CutSpecies,
             { SerialCommandLine })

\* ends of the production-cut energy window a configuration may give, in keV
EnergyPool == { -1, 0, 1, 10 }

\* the example's cut lengths with every choice of the two ends of the window
WindowChoices ==
    { [ ExampleCuts EXCEPT !.minEnergy = lo, !.maxEnergy = hi ] :
        lo \in EnergyPool, hi \in EnergyPool }

\* the empty configuration, the example, and the example with a second EM list,
\* with every energy window
InitWindow ==
    InitFull({ << >>, ExampleConfig, ExampleConfig \o << EmNames[2] >> }, { REST_Essential },
             { OptionsOf(config, ExampleEmOptions, ExampleRadDecOptions) },
             { NamedParticleSet }, { << >> }, WindowChoices, { ExampleCutsConfigured },
             { SerialCommandLine })

\* numbers of events on the command line: a negative one, none (0) and one event
EventCounts == { -1, 0, 1 }

\* numbers of threads on the command line: serial (0), one worker and four
ThreadCounts == { 0, 1, 4 }

CommandLines == [ nEvents : EventCounts, nThreads : ThreadCounts ]

\* configurations up to MaxRunLen with every command line
InitRun ==
    InitFull(Configs(MaxRunLen), { REST_Essential },
             { OptionsOf(config, NoEmOptions, NoRadDecOptions) },
             { NamedParticleSet }, { << >> }, { ExampleCuts }, { ExampleCutsConfigured },
             CommandLines)

Next ==
    \/ RunPrologue
    \/ PhysicsListCtor
    \/ ConstructParticle
    \/ ConstructProcess
    \/ SetCuts
    \/ RunEvents

Spec == Init /\ [][Next]_vars

SpecOptions == InitOptions /\ [][Next]_vars

SpecParticles == InitParticles /\ [][Next]_vars

SpecVerbose == InitVerbose /\ [][Next]_vars

SpecOrder == InitOrder /\ [][Next]_vars

SpecIons == InitIons /\ [][Next]_vars

SpecCuts == InitCuts /\ [][Next]_vars

SpecWindow == InitWindow /\ [][Next]_vars

SpecRun == InitRun /\ [][Next]_vars

\* the program with a further caller of InitializePhysicsLists
NextReinit ==
    \/ Next
    \/ ReInitialize

SpecReinit == Init /\ [][NextReinit]_vars


(* ------------------------------------------------------------------ *)
(* Vocabulary of the properties                                        *)
(* ------------------------------------------------------------------ *)

\* the electromagnetic names a configuration declares
EmDeclared(cfg) == { n \in EmNameSet : \E i \in DOMAIN cfg : cfg[i] = n }

\* the positions of Run once runManager->Initialize() has returned
AfterInitialize == { "initialized", "exitedAfterInit", "batch", "interactive" }

\* the constructor of PhysicsList has run
Resolved == pc \notin { "run", "start" }

\* a step after the constructor has been reached
PastResolution == pc \in { "particles", "processes" } \cup AfterInitialize

\* ConstructProcess has run
ProcessesBuilt == pc \in { "processes" } \cup AfterInitialize

\* positions of calls whose operation is in ops
CallsAt(ops) == { i \in DOMAIN calls : calls[i].op \in ops }

\* the receivers of the calls of one operation, in call order
Receivers(op) ==
    LET sel == SelectSeq(calls, LAMBDA c : c.op = op)
    IN  [ i \in DOMAIN sel |-> sel[i].who ]

\* how often x occurs in sequence s
Occurrences(s, x) == Cardinality({ i \in DOMAIN s : s[i] = x })

\* a message names a module when the module's name is one of its words
Names(msg, module) == \E i \in DOMAIN msg : msg[i] = module

\* the modules the assembly holds
AssemblyModules ==
    ({ fDecPhysicsList, fRadDecPhysicsList, fEmPhysicsList } \ { Null }) \cup Range(fHadronPhys)

(* ------------------------------------------------------------------ *)
(* C1                                                                  *)
(* ------------------------------------------------------------------ *)

\* C1: whenever the configuration declares two or more (distinct) Electromagnetic
\* names, the constructor ends in exit() with a nonzero status, and ConstructParticle,
\* ConstructProcess and SetCuts are never reached.
C1_TwoEmNamesAreFatal ==
    (Resolved /\ Cardinality(EmDeclared(config)) >= 2) =>
        /\ pc = "exited"
        /\ exitStatus > 0
        /\ ~PastResolution
        /\ CallsAt({ "GeantinoDefinition", "ConstructParticle", "AddTransportation",
                     "ConstructProcess", "ApplyCommand", "AddDiscreteProcess" }) = { }
        /\ cutCalls = << >>
        /\ particleTable = { }

\* C1 case: the run has exited on two EM names that are declared apart from each
\* other, the later-probed one first
C1_Witness ==
    /\ pc = "exited"
    /\ Len(config) = 3
    /\ config[1] = EmNames[4]
    /\ config[2] = DecayName
    /\ config[3] = EmNames[1]

(* ------------------------------------------------------------------ *)
(* C2                                                                  *)
(* ------------------------------------------------------------------ *)

\* C2 as stated: after the fatal exclusivity failure some message on the error
\* stream names every declared Electromagnetic module.
C2_DiagnosticNamesConflict ==
    pc = "exited" =>
        \E i \in DOMAIN cerr : \A n \in EmDeclared(config) : Names(cerr[i], n)

\* C2 amended: the fatal exclusivity failure writes exactly one message to the error
\* stream, the fixed text "PhysicsList: More than 1 EM PhysicsList enabled.", and it
\* names none of the declared modules.
C2_DiagnosticIsFixedText ==
    (Resolved /\ Cardinality(EmDeclared(config)) >= 2) =>
        /\ Len(cerr) = 1
        /\ cerr[1] = << "PhysicsList:", "More", "than", "1", "EM", "PhysicsList", "enabled." >>
        /\ \A n \in Range(config) : ~Names(cerr[1], n)

\* C2 case: the run has exited on three declared EM names
C2_Witness ==
    /\ pc = "exited"
    /\ Cardinality(EmDeclared(config)) = 3
    /\ cerr # << >>

(* ------------------------------------------------------------------ *)
(* C3                                                                  *)
(* ------------------------------------------------------------------ *)

\* C3: when no Electromagnetic name is declared the constructor returns (no exit),
\* fEmPhysicsList stays null, no call is ever made on an EM list and no EM option
\* command is ever applied, and the "No EM physics list" warning is written exactly
\* once when verbose >= REST_Essential and never otherwise.
C3_NoEmProceedsWithGatedWarning ==
    (Resolved /\ EmDeclared(config) = { }) =>
        /\ pc # "exited"
        /\ exitStatus = -1
        /\ fEmPhysicsList = Null
        /\ \A i \in DOMAIN calls : calls[i].who \notin EmNameSet
        /\ CallsAt({ "ApplyCommand", "AddModels" }) = { }
        /\ emParams = EngineEmDefaults
        /\ Occurrences(restWarning, MsgNoEm) = (IF verbose >= REST_Essential THEN 1 ELSE 0)

\* C3 case: a run without EM names completed silently below the threshold although
\* other modules were declared
C3_Witness ==
    /\ pc = "initialized"
    /\ EmDeclared(config) = { }
    /\ Len(config) = 2
    /\ verbose = REST_Silent
    /\ MsgNoEm \notin Range(restWarning)

(* ------------------------------------------------------------------ *)
(* C4                                                                  *)
(* ------------------------------------------------------------------ *)

\* C4: when exactly one Electromagnetic name is declared, fEmPhysicsList is the list
\* of that name and fEmPhysicsListName is that name, wherever it is declared and
\* whatever else is declared.
C4_SingleEmIsKeptWithItsName ==
    (Resolved /\ Cardinality(EmDeclared(config)) = 1) =>
        \A n \in EmDeclared(config) :
            /\ fEmPhysicsList = n
            /\ fEmPhysicsListName = n
            /\ pc # "exited"

\* C4 case: the only EM name is declared last, after two other declarations
C4_Witness ==
    /\ pc = "physicsList"
    /\ Len(config) = 3
    /\ config[1] = HadronNames[2]
    /\ config[2] \in UnknownNames
    /\ config[3] = EmNames[3]
    /\ fEmPhysicsListName = EmNames[3]

(* ------------------------------------------------------------------ *)
(* C5                                                                  *)
(* ------------------------------------------------------------------ *)

\* the declarations of cfg that name a hadronic list, in declaration order
DeclaredHadronic(cfg) == SelectSeq(cfg, LAMBDA n : n \in HadronNameSet)

\* C5 as stated: the hadronic vector is the declared list filtered to hadronic
\* names, in declaration order, duplicates kept.
C5_HadronicInDeclarationOrder ==
    (Resolved /\ pc # "exited") => fHadronPhys = DeclaredHadronic(config)

\* C5 amended: the hadronic vector is the fixed probe order (G4HadronPhysicsQGSP_BIC_HP,
\* G4IonBinaryCascadePhysics, G4HadronElasticPhysicsHP, G4NeutronTrackingCut,
\* G4EmExtraPhysics) filtered to the names declared at least once; every name occurs
\* at most once, whatever the declaration order and however often it is declared.
C5_HadronicInProbeOrder ==
    (Resolved /\ pc # "exited") =>
        /\ fHadronPhys = SelectSeq(HadronNames, LAMBDA n : \E i \in DOMAIN config : config[i] = n)
        /\ \A n \in HadronNameSet : Occurrences(fHadronPhys, n) <= 1

\* C5 case: [B, A, B] with A probed before B has been resolved
C5_Witness ==
    /\ pc = "physicsList"
    /\ config = << HadronNames[2], HadronNames[1], HadronNames[2] >>
    /\ Len(fHadronPhys) = 2

(* ------------------------------------------------------------------ *)
(* C6                                                                  *)
(* ------------------------------------------------------------------ *)

\* cfg without the declarations whose name is not in the registry
WithoutUnknown(cfg) == SelectSeq(cfg, LAMBDA n : n \in RegistryNames)

\* C6: the outcome of resolution and the assembly are those of the same configuration
\* with every unregistered name removed, so declaring an unregistered name anywhere
\* changes neither.
C6_UnknownNamesChangeNothing ==
    Resolved =>
        LET r == InitializePhysicsLists(WithoutUnknown(config), verbose, FreshMembers)
        IN  /\ exitStatus = r.exit
            /\ (pc = "exited") = (r.exit # -1)
            /\ cerr = r.cerr
            /\ fDecPhysicsList = r.fDecPhysicsList
            /\ fRadDecPhysicsList = r.fRadDecPhysicsList
            /\ fEmPhysicsList = r.fEmPhysicsList
            /\ fEmPhysicsListName = r.fEmPhysicsListName
            /\ fHadronPhys = r.fHadronPhys

\* C6 case: an unregistered name is declared first, ahead of registered ones, and
\* resolution has kept those
C6_Witness ==
    /\ pc = "physicsList"
    /\ Len(config) = 3
    /\ config[1] \in UnknownNames
    /\ config[2] = DecayName
    /\ config[3] = EmNames[1]
    /\ fDecPhysicsList = DecayName
    /\ fEmPhysicsList = EmNames[1]


(* ------------------------------------------------------------------ *)
(* C7                                                                  *)
(* ------------------------------------------------------------------ *)

\* place of a module in the stated particle order: Decay, EM, RadioactiveDecay, Hadronic
ParticleRank(m) ==
    IF m = DecayName THEN 1
    ELSE IF m \in EmNameSet THEN 2
    ELSE IF m = RadDecPhysicsName THEN 3
    ELSE 4

\* s never steps down in particle rank
ParticleRankOrdered(s) == \A i, j \in DOMAIN s : i < j => ParticleRank(s[i]) <= ParticleRank(s[j])

\* every module of the assembly occurs in s as often as the assembly holds it, and
\* nothing else occurs in s
ExactlyTheAssembly(s) ==
    /\ Range(s) = AssemblyModules
    /\ \A m \in AssemblyModules :
          Occurrences(s, m) = (IF m \in HadronNameSet THEN Occurrences(fHadronPhys, m) ELSE 1)

\* C7: once ConstructParticle has run, the ConstructParticle calls go to exactly the
\* modules of the assembly, each once, in the order Decay, Electromagnetic,
\* RadioactiveDecay, then the hadronic modules in the order of fHadronPhys.
C7_ParticlePhaseOrder ==
    PastResolution =>
        LET who == Receivers("ConstructParticle")
        IN  /\ ExactlyTheAssembly(who)
            /\ ParticleRankOrdered(who)
            /\ SelectSeq(who, LAMBDA m : m \in HadronNameSet) = fHadronPhys

\* C7 case: all four categories are present, declared in an order unlike the call order
C7_Witness ==
    /\ pc = "particles"
    /\ config = << HadronNames[5], RadDecPhysicsName, EmNames[1], HadronNames[1], DecayName >>
    /\ Len(Receivers("ConstructParticle")) = 5

(* ------------------------------------------------------------------ *)
(* C8                                                                  *)
(* ------------------------------------------------------------------ *)

\* place of a module in the stated process order: EM, Decay, RadioactiveDecay, Hadronic
ProcessRank(m) ==
    IF m \in EmNameSet THEN 1
    ELSE IF m = DecayName THEN 2
    ELSE IF m = RadDecPhysicsName THEN 3
    ELSE 4

\* s never steps down in process rank
ProcessRankOrdered(s) == \A i, j \in DOMAIN s : i < j => ProcessRank(s[i]) <= ProcessRank(s[j])

\* the EM list's ConstructProcess is directly followed by AddModels and the six
\* option commands, and no option command is applied anywhere else
EmOptionsFollowEm ==
    \A i \in CallsAt({ "ConstructProcess" }) :
        calls[i].who \in EmNameSet =>
            /\ i + 7 <= Len(calls)
            /\ calls[i + 1].op = "AddModels"
            /\ CallsAt({ "ApplyCommand" }) = (i + 2) .. (i + 7)

\* C8: once ConstructProcess has run, AddTransportation was called exactly once and
\* before every process construction and option command; the ConstructProcess calls go
\* to exactly the modules of the assembly, each once, in the order Electromagnetic,
\* Decay, RadioactiveDecay, then the hadronic modules in the order of fHadronPhys; the
\* EM option commands directly follow the EM list's construction, and none is applied
\* when no EM list is present.
C8_ProcessPhaseOrder ==
    ProcessesBuilt =>
        LET who == Receivers("ConstructProcess")
        IN  /\ Cardinality(CallsAt({ "AddTransportation" })) = 1
            /\ \A t \in CallsAt({ "AddTransportation" }) :
                  \A i \in CallsAt({ "ConstructProcess", "AddModels", "ApplyCommand",
                                     "AddDiscreteProcess" }) : t < i
            /\ ExactlyTheAssembly(who)
            /\ ProcessRankOrdered(who)
            /\ SelectSeq(who, LAMBDA m : m \in HadronNameSet) = fHadronPhys
            /\ EmOptionsFollowEm
            /\ (fEmPhysicsList = Null => CallsAt({ "ApplyCommand" }) = { })
            /\ (fEmPhysicsList # Null => Cardinality(CallsAt({ "ApplyCommand" })) = 6)

\* C8 case: all four categories are present, declared in an order unlike the call order
C8_Witness ==
    /\ pc = "processes"
    /\ config = << HadronNames[2], DecayName, HadronNames[1], RadDecPhysicsName, EmNames[3] >>
    /\ Len(Receivers("ConstructProcess")) = 5

(* ------------------------------------------------------------------ *)
(* C9                                                                  *)
(* ------------------------------------------------------------------ *)

\* the value C9 states for one toggle: the configured one, else the stated default
StatedToggle(key) ==
    IF options[fEmPhysicsListName][key] # Unset THEN options[fEmPhysicsListName][key]
    ELSE IF key = "pixe" THEN "false"
    ELSE "true"

\* C9: once ConstructProcess has run with an EM list present, each of /process/em/fluo,
\* /process/em/auger and /process/em/pixe has the value of the list's option of that
\* name if it is configured (as "true" or "false"), otherwise true, true and false;
\* the value of one toggle depends on no other key.
C9_EmTogglesInForce ==
    (ProcessesBuilt /\ fEmPhysicsList # Null) =>
        \A key \in EmOptionKeys : emParams[key] = StatedToggle(key)

\* C9 case: pixe switched on, fluo switched off, auger left to its default
C9_Witness ==
    /\ pc = "processes"
    /\ fEmPhysicsList = EmNames[2]
    /\ options[EmNames[2]]["pixe"] = "true"
    /\ options[EmNames[2]]["fluo"] = "false"
    /\ options[EmNames[2]]["auger"] = Unset
    /\ emParams = [ k \in EmOptionKeys |-> IF k = "fluo" THEN "false" ELSE "true" ]

(* ------------------------------------------------------------------ *)
(* C10                                                                 *)
(* ------------------------------------------------------------------ *)

\* the tags of the step limiters attached to a species, in attachment order
LimitersOf(species) ==
    LET sel == SelectSeq(calls, LAMBDA c : c.op = "AddDiscreteProcess" /\ c.who = species)
    IN  [ i \in DOMAIN sel |-> sel[i].arg ]

\* C10: once ConstructProcess has run, each of e-, e+, mu-, mu+ that is in the particle
\* table carries exactly one step limiter, tagged with its name followed by "Step", and
\* every other named species (and any species not in the table) carries none,
\* whatever the configuration.
C10_FixedNameLimiters ==
    ProcessesBuilt =>
        \A p \in NamedParticleSet \cup { Geantino } :
            LimitersOf(p) =
                IF p \in { "e-", "e+", "mu-", "mu+" } /\ p \in particleTable
                THEN << p \o "Step" >>
                ELSE << >>

\* C10 case: e- and mu+ exist, e+ and mu- do not
C10_Witness ==
    /\ pc = "processes"
    /\ { "e-", "mu+", "gamma" } \subseteq particleTable
    /\ "e+" \notin particleTable
    /\ "mu-" \notin particleTable
    /\ LimitersOf("mu+") = << "mu+Step" >>

(* ------------------------------------------------------------------ *)
(* C11                                                                 *)
(* ------------------------------------------------------------------ *)

\* the (Z, A) with an element name in the model whose A is inside the loop of Z or
\* up to two steps outside it, for the Z of the loop and beyond
AllIons ==
    { p \in (1 .. Len(ElementSymbols)) \X (1 .. 3 * Len(ElementSymbols) + 2) :
        2 * p[1] - 2 <= p[2] /\ p[2] <= 3 * p[1] + 2 }

AllIonNames == [ p \in AllIons |-> GetIonName(p[1], p[2]) ]

AllIonNameSet == Range(AllIonNames)

\* the particles that received an "ionStep" limiter
IonStepReceivers ==
    { calls[i].who : i \in { j \in DOMAIN calls :
                               calls[j].op = "AddDiscreteProcess" /\ calls[j].arg = "ionStep" } }

\* C11: once ConstructProcess has run, ion (Z, A) carries an "ionStep" limiter if and
\* only if 1 <= Z <= 40, 2*Z <= A <= 3*Z (both ends included) and its name is in the
\* ion step list; nothing that is not such an ion carries one
C11_IonStepIffInWindowAndListed ==
    ProcessesBuilt =>
        LET limited == IonStepReceivers
            listed == Range(ionStepList)
        IN  /\ \A p \in AllIons :
                  AllIonNames[p] \in limited
                  <=> /\ 1 <= p[1] /\ p[1] <= 40
                      /\ 2 * p[1] <= p[2] /\ p[2] <= 3 * p[1]
                      /\ AllIonNames[p] \in listed
            /\ limited \subseteq AllIonNameSet

\* the names of (6, 14) and (6, 20) are both listed; only (6, 14) got its limiter
C11_Witness ==
    /\ ProcessesBuilt
    /\ GetIonName(6, 14) \in Range(ionStepList)
    /\ GetIonName(6, 20) \in Range(ionStepList)
    /\ GetIonName(6, 14) \in IonStepReceivers
    /\ GetIonName(6, 20) \notin IonStepReceivers

(* ------------------------------------------------------------------ *)
(* C12                                                                 *)
(* ------------------------------------------------------------------ *)

\* the engine's names of the species SetCuts addresses
EngineCutSpecies == { "gamma", "e-", "e+", "mu+", "mu-", "neutron" }

\* the cut parameter of the configuration behind an engine species
CutParameterOf(species) ==
    CASE species = "gamma" -> "gamma"
      [] species = "e-" -> "electron"
      [] species = "e+" -> "positron"
      [] species \in { "mu+", "mu-" } -> "muon"
      [] species = "neutron" -> "neutron"

\* the value the configuration returns for a cut parameter
CutReturned(parameter) ==
    CASE parameter = "gamma" -> cuts.gamma
      [] parameter = "electron" -> cuts.electron
      [] parameter = "positron" -> cuts.positron
      [] parameter = "muon" -> cuts.muon
      [] parameter = "neutron" -> cuts.neutron

\* the cut in force for a species: SetCutsWithDefault sets it for every species,
\* SetCutValue for the one it names; the last such call counts
CutInForce(species) ==
    LET at == { i \in DOMAIN cutCalls : cutCalls[i].species \in { species, "" } }
        last == CHOOSE i \in at : \A j \in at : j <= i
    IN  cutCalls[last].value

\* SetCuts has run
CutsApplied == pc \in AfterInitialize

\* C12 as stated: a species whose cut parameter is not configured keeps the
\* global default of 0.1 mm
C12_UnconfiguredKeepDefault ==
    CutsApplied =>
        \A species \in EngineCutSpecies :
            CutParameterOf(species) \notin cutsConfigured
            => CutInForce(species) = DefaultCutValue

\* C12 amended: after SetCuts the cut of every species is the value the
\* configuration returns for its parameter, configured or not; the default of
\* 0.1 mm is applied first and survives for no species SetCuts names; mu+ and mu-
\* both carry the muon value
C12_EverySpeciesCarriesReturnedValue ==
    CutsApplied =>
        /\ cutCalls[1] = Cut("", DefaultCutValue)
        /\ \A species \in EngineCutSpecies :
              CutInForce(species) = CutReturned(CutParameterOf(species))
        /\ CutInForce("mu+") = CutInForce("mu-")

\* nothing is configured, the getters return 1 mm for gamma and 0.1 mm for the
\* electron, and after SetCuts gamma is at 1 mm, the electron at the default
C12_Witness ==
    /\ CutsApplied
    /\ cutsConfigured = { }
    /\ cuts.gamma = 10
    /\ cuts.electron = DefaultCutValue
    /\ cuts.muon = 10
    /\ CutInForce("gamma") = 10
    /\ CutInForce("e-") = DefaultCutValue
    /\ CutInForce("mu+") = 10
    /\ CutInForce("mu-") = 10

(* ------------------------------------------------------------------ *)
(* C13                                                                 *)
(* ------------------------------------------------------------------ *)

\* the configured window is inverted or has a non-positive end
WindowInvalid ==
    \/ cuts.minEnergy > cuts.maxEnergy
    \/ cuts.minEnergy <= 0
    \/ cuts.maxEnergy <= 0

\* the engine has been addressed: a range set, an object created, a phase run
EngineAddressed ==
    \/ energyRange # << >>
    \/ calls # << >>
    \/ cutCalls # << >>
    \/ runCommands # << >>

\* C13: an inverted or non-positive energy window is rejected: once the
\* constructor has been entered with such a window, the program has stopped with an
\* error and nothing has been passed to the engine
C13_InvalidWindowRejected ==
    (Resolved /\ WindowInvalid) =>
        /\ exitStatus = 1
        /\ ~EngineAddressed

(* ------------------------------------------------------------------ *)
(* C14                                                                 *)
(* ------------------------------------------------------------------ *)

\* the first declared electromagnetic name in probe order, as a set
FirstEmProbed(cfg) ==
    { EmNames[k] : k \in { i \in DOMAIN EmNames :
                             /\ EmNames[i] \in Range(cfg)
                             /\ \A j \in 1 .. i - 1 : EmNames[j] \notin Range(cfg) } }

\* the objects a failing constructor has created by the time it calls exit
CreatedBeforeAbort(cfg) ==
    { "G4UnitDefinition" }
    \cup ({ DecayName, RadDecPhysicsName } \cap Range(cfg))
    \cup FirstEmProbed(cfg)

\* C14 as stated: when resolution ends in the fatal exclusivity failure, no
\* engine-facing call has been made: no energy range, no loss-table manager, no module
C14_NothingBeforeAbort ==
    pc = "exited" =>
        /\ energyRange = << >>
        /\ calls = << >>

\* C14 amended: the fatal exclusivity failure comes before engine initialization
\* (no hadronic module, no particle or process construction, no step limiter, no
\* cut, no run command), but after the constructor has created the loss-table
\* manager, set the energy range and instantiated the declared Decay and
\* RadioactiveDecay modules and the first electromagnetic list
C14_AbortAfterCtorEffectsOnly ==
    pc = "exited" =>
        /\ energyRange = << cuts.minEnergy, cuts.maxEnergy >>
        /\ \A i \in DOMAIN calls : calls[i].op \in { "new", "Instance", "SetEnergyRange" }
        /\ Occurrences(Receivers("Instance"), "G4LossTableManager") = 1
        /\ Range(Receivers("new")) = CreatedBeforeAbort(config)
        /\ fHadronPhys = << >>
        /\ cutCalls = << >>
        /\ runCommands = << >>
        /\ particleTable = { }
        /\ emParams = EngineEmDefaults

\* two electromagnetic lists and a hadronic list are declared; at the abort the energy
\* range is set and the first electromagnetic list exists, the hadronic list does not
C14_Witness ==
    /\ pc = "exited"
    /\ Cardinality(EmDeclared(config)) = 2
    /\ Range(config) \cap HadronNameSet # { }
    /\ energyRange # << >>
    /\ Range(Receivers("new")) \cap EmNameSet = { fEmPhysicsList }
    /\ Range(Receivers("new")) \cap HadronNameSet = { }

(* ------------------------------------------------------------------ *)
(* C15                                                                 *)
(* ------------------------------------------------------------------ *)

\* what one run of InitializePhysicsLists on a fresh object yields
FirstResolution == InitializePhysicsLists(config, verbose, FreshMembers)

\* C15: however often InitializePhysicsLists has run on the object, its decay slot,
\* radioactive-decay slot, electromagnetic slot and name and its hadronic sequence
\* are those of the first run
C15_ResolutionIdempotent ==
    (Resolved /\ pc # "exited") =>
        /\ fDecPhysicsList = FirstResolution.fDecPhysicsList
        /\ fRadDecPhysicsList = FirstResolution.fRadDecPhysicsList
        /\ fEmPhysicsList = FirstResolution.fEmPhysicsList
        /\ fEmPhysicsListName = FirstResolution.fEmPhysicsListName
        /\ fHadronPhys = FirstResolution.fHadronPhys

(* ------------------------------------------------------------------ *)
(* C16                                                                 *)
(* ------------------------------------------------------------------ *)

\* the calls the constructor of PhysicsList makes on its own account
CtorOps == { "Instance", "SetEnergyRange" }

\* the calls made inside runManager->Initialize()
InitializeOps ==
    { "ConstructParticle", "ConstructProcess", "AddTransportation", "AddDiscreteProcess" }

\* C16: the PhysicsList is constructed exactly once, and its construction is
\* complete before anything runManager->Initialize() does and before any run command
\* (/run/beamOn included) is applied
C16_ResolutionOnceBeforeEngine ==
    /\ initRuns = (IF Resolved THEN 1 ELSE 0)
    /\ Cardinality(CallsAt({ "SetEnergyRange" })) = initRuns
    /\ \A i \in CallsAt(CtorOps) : \A j \in CallsAt(InitializeOps) : i < j
    /\ (CallsAt(InitializeOps) # { } \/ cutCalls # << >>) => initRuns = 1 /\ pc # "exited"
    /\ runCommands # << >> =>
          /\ initRuns = 1
          /\ CallsAt({ "AddTransportation" }) # { }
          /\ cutCalls # << >>

\* a batch run of one event on a resolved configuration: the constructor ran once,
\* the engine phases followed it, and /run/beamOn came last
C16_Witness ==
    /\ pc = "batch"
    /\ numberOfEvents = 1
    /\ initRuns = 1
    /\ fEmPhysicsList # Null
    /\ runCommands = BatchCommands(1)
    /\ CallsAt({ "ConstructProcess" }) # { }
    /\ cutCalls # << >>

(* ------------------------------------------------------------------ *)
(* C17                                                                 *)
(* ------------------------------------------------------------------ *)

\* the declarations of a configuration that name an electromagnetic list
EmDeclarations(cfg) == { i \in DOMAIN cfg : cfg[i] \in EmNameSet }

\* C17 as stated: every electromagnetic declaration is counted, so two declarations
\* of one electromagnetic name are fatal
C17_EveryDeclarationCounted ==
    Resolved =>
        /\ emCounter = Cardinality(EmDeclarations(config))
        /\ Cardinality(EmDeclarations(config)) >= 2 => pc = "exited"

\* C17 amended: every electromagnetic name is counted once if it is declared at
\* all, kept or not, however often it is declared; a configuration that declares
\* one electromagnetic name several times has a count of 1, keeps that list once
\* and does not fail
C17_EveryDeclaredNameCountedOnce ==
    Resolved =>
        /\ emCounter = Cardinality(EmDeclared(config))
        /\ Cardinality(EmDeclared(config)) = 1 =>
              /\ pc # "exited"
              /\ cerr = << >>
              /\ fEmPhysicsList \in EmDeclared(config)
              /\ Occurrences(Receivers("new"), fEmPhysicsList) = 1

\* the same electromagnetic name is declared twice and nothing else; the count is 1
\* and the run has got through engine initialization
C17_Witness ==
    /\ pc = "initialized"
    /\ Len(config) = 2
    /\ config[1] = config[2]
    /\ config[1] \in EmNameSet
    /\ emCounter = 1
    /\ fEmPhysicsList = config[1]

(* ------------------------------------------------------------------ *)
(* C18                                                                 *)
(* ------------------------------------------------------------------ *)

\* positions of the calls made on the G4RadioactiveDecay object, its creation included
RadioactiveDecayCalls == { i \in DOMAIN calls : calls[i].who = RadioactiveDecayEntry }

\* the "option not defined" warnings written so far
OptionWarnings ==
    { i \in DOMAIN restWarning : \E key \in RadDecOptionKeys :
                                    restWarning[i] = MsgOptionNotDefined(key) }

\* C18: once ConstructProcess has run, the decay time threshold has been applied if
\* and only if the G4RadioactiveDecay entry is declared, at whatever position; without
\* the entry no radioactive-decay object exists and no "option not defined" warning
\* has been written
C18_SettingsIffEntryDeclared ==
    ProcessesBuilt =>
        /\ CallsAt({ "SetThresholdForVeryLongDecayTime" }) # { }
           <=> RadioactiveDecayEntry \in Range(config)
        /\ RadioactiveDecayEntry \notin Range(config) =>
              /\ RadioactiveDecayCalls = { }
              /\ OptionWarnings = { }

(* ------------------------------------------------------------------ *)
(* C19                                                                 *)
(* ------------------------------------------------------------------ *)

\* positions of the ConstructProcess calls on modules of the given names
ProcessConstructionOf(modules) ==
    { i \in DOMAIN calls : calls[i].op = "ConstructProcess" /\ calls[i].who \in modules }

\* C19 as stated: the threshold and the ICM/ARM flags are applied after the Decay
\* module's process construction and before that of the first hadronic module
C19_SettingsBeforeHadronic ==
    ProcessesBuilt =>
        \A i \in RadioactiveDecayCalls :
            /\ \A j \in ProcessConstructionOf({ DecayName }) : j < i
            /\ \A j \in ProcessConstructionOf(HadronNameSet) : i < j

\* C19 amended: whenever the threshold and the ICM/ARM flags are applied, they are
\* applied in a block of their own after the process construction of every module
\* (EM, Decay, RadioactiveDecay and the last hadronic module) and before the first
\* step limiter is attached
C19_SettingsAfterEveryModule ==
    ProcessesBuilt =>
        \A i \in RadioactiveDecayCalls :
            /\ \A j \in CallsAt({ "AddTransportation", "ConstructProcess", "AddModels",
                                  "ApplyCommand" }) : j < i
            /\ \A j \in CallsAt({ "AddDiscreteProcess" }) : i < j

\* the Decay module, a hadronic module and the G4RadioactiveDecay entry are declared;
\* the threshold was set after the hadronic module's process construction and
\* before the e- limiter
C19_Witness ==
    /\ ProcessesBuilt
    /\ fDecPhysicsList # Null
    /\ fHadronPhys # << >>
    /\ RadioactiveDecayEntry \in Range(config)
    /\ \E i \in CallsAt({ "SetThresholdForVeryLongDecayTime" }) :
          /\ \E j \in ProcessConstructionOf(HadronNameSet) : j < i
          /\ \E j \in CallsAt({ "AddDiscreteProcess" }) : i < j

(* ------------------------------------------------------------------ *)
(* C20                                                                 *)
(* ------------------------------------------------------------------ *)

\* a message about an option of the EM list: one that names its command path
EmOptionDiagnostics(key) ==
    { m \in Range(g4cout) \cup Range(restWarning) : Names(m, EmCommandPath(key)) }

\* C20: an absent ICM, ARM, pixe, fluo or auger option never stops the run, leaves
\* the default in place, and has its diagnostic if and only if the verbosity is
\* REST_Essential or above
C20_AbsentOptionGatedDiagnostic ==
    ProcessesBuilt =>
        /\ \A key \in RadDecOptionKeys :
              (/\ RadioactiveDecayEntry \in Range(config)
               /\ options[RadioactiveDecayEntry][key] = Unset)
              => /\ CallsAt({ "Set" \o key }) = { }
                 /\ MsgOptionNotDefined(key) \in Range(restWarning)
                    <=> verbose >= REST_Essential
        /\ \A key \in EmOptionKeys :
              (/\ fEmPhysicsList # Null
               /\ options[fEmPhysicsListName][key] = Unset)
              => /\ emParams[key] = EmOptionDefault(key)
                 /\ EmOptionDiagnostics(key) # { } <=> verbose >= REST_Essential

(* ------------------------------------------------------------------ *)
(* C21                                                                 *)
(* ------------------------------------------------------------------ *)

\* 1 when the configuration declares the name at least once, 0 otherwise
DeclaredOnce(name) == IF name \in Range(config) THEN 1 ELSE 0

\* C21: once resolved, the assembly holds the Decay module if and only if
\* G4DecayPhysics is declared at least once and the RadioactiveDecay module if and
\* only if G4RadioactiveDecayPhysics is; exactly one object was created for a declared
\* name however often it is declared; and a failure of resolution is never due to
\* such a duplicate, only to two electromagnetic names
C21_DecayFirstMatchOnly ==
    Resolved =>
        /\ fDecPhysicsList = (IF DecayName \in Range(config) THEN DecayName ELSE Null)
        /\ fRadDecPhysicsList
             = (IF RadDecPhysicsName \in Range(config) THEN RadDecPhysicsName ELSE Null)
        /\ Occurrences(Receivers("new"), DecayName) = DeclaredOnce(DecayName)
        /\ Occurrences(Receivers("new"), RadDecPhysicsName) = DeclaredOnce(RadDecPhysicsName)
        /\ ProcessesBuilt =>
              /\ Cardinality(ProcessConstructionOf({ DecayName })) = DeclaredOnce(DecayName)
              /\ Cardinality(ProcessConstructionOf({ RadDecPhysicsName }))
                   = DeclaredOnce(RadDecPhysicsName)
        /\ pc = "exited" => Cardinality(EmDeclared(config)) >= 2

\* G4DecayPhysics is declared twice; the run got through engine initialization with
\* one Decay module, created once
C21_Witness ==
    /\ pc = "initialized"
    /\ Occurrences(config, DecayName) = 2
    /\ fDecPhysicsList = DecayName
    /\ Occurrences(Receivers("new"), DecayName) = 1
    /\ cerr = << >>

(* ------------------------------------------------------------------ *)
(* C22                                                                 *)
(* ------------------------------------------------------------------ *)

\* positions of the step-limiter attachments: all, the fixed-name ones, the ion ones
LimiterCalls == CallsAt({ "AddDiscreteProcess" })

IonLimiterCalls == { i \in LimiterCalls : calls[i].arg = "ionStep" }

FixedLimiterCalls == LimiterCalls \ IonLimiterCalls

\* the (Z, A) of an ion name
IonOf(name) == CHOOSE p \in AllIons : AllIonNames[p] = name

\* ion p comes no later than ion q by Z and, for equal Z, by A
IonNotAfter(p, q) == p[1] < q[1] \/ (p[1] = q[1] /\ p[2] <= q[2])

\* C22: step limiters are attached after the process construction of every module
\* and before any cut is applied; every fixed-name limiter precedes every ion
\* limiter; ion limiters follow increasing Z and, for equal Z, increasing A
C22_LimiterOrder ==
    /\ ~ProcessesBuilt => LimiterCalls = { } /\ cutCalls = << >>
    /\ pc = "processes" => cutCalls = << >>
    /\ \A i \in LimiterCalls :
          \A j \in CallsAt({ "AddTransportation", "ConstructProcess", "AddModels",
                             "ApplyCommand" }) : j < i
    /\ \A i \in FixedLimiterCalls : \A j \in IonLimiterCalls : i < j
    /\ \A i, j \in IonLimiterCalls :
          i < j => IonNotAfter(IonOf(calls[i].who), IonOf(calls[j].who))

\* the example's modules with Zr120 listed before C12: after SetCuts the e- limiter
\* follows the last process construction, the C12 limiter follows the e- limiter and
\* the Zr120 limiter follows the C12 limiter
C22_Witness ==
    /\ pc = "initialized"
    /\ config = ExampleConfig
    /\ ionStepList = << "Zr120", "C12" >>
    /\ cutCalls # << >>
    /\ \E c \in CallsAt({ "ConstructProcess" }), f \in FixedLimiterCalls,
          i \in IonLimiterCalls, j \in IonLimiterCalls :
          /\ c < f /\ f < i /\ i < j
          /\ calls[f].who = "e-"
          /\ calls[i].who = "C12"
          /\ calls[j].who = "Zr120"

(* ------------------------------------------------------------------ *)
(* C23                                                                 *)
(* ------------------------------------------------------------------ *)

\* the species of the cut calls made so far, in call order ("" is the default)
CutSequence == [ i \in DOMAIN cutCalls |-> cutCalls[i].species ]

\* C23: SetCuts makes no cut call before it runs, and when it has run it has applied
\* the default first and then gamma, e-, e+, mu+, mu-, neutron in this order, each
\* once, mu+ and mu- with the one muon value
C23_CutOrder ==
    /\ ~CutsApplied => cutCalls = << >>
    /\ CutsApplied =>
          /\ CutSequence = << "", "gamma", "e-", "e+", "mu+", "mu-", "neutron" >>
          /\ \A species \in EngineCutSpecies : Occurrences(CutSequence, species) = 1
          /\ cutCalls[5].value = cuts.muon
          /\ cutCalls[6].value = cuts.muon

\* gamma is returned as 1 mm, the muon as 0.1 mm; the second call set gamma, the
\* fifth and sixth set mu+ and mu- to the muon value, the seventh the neutron
C23_Witness ==
    /\ pc = "initialized"
    /\ cuts.gamma = 10
    /\ cuts.muon = 1
    /\ cuts.neutron = 10
    /\ Len(cutCalls) = 7
    /\ cutCalls[2] = Cut("gamma", 10)
    /\ cutCalls[5] = Cut("mu+", 1)
    /\ cutCalls[6] = Cut("mu-", 1)
    /\ cutCalls[7] = Cut("neutron", 10)

(* ------------------------------------------------------------------ *)
(* C24                                                                 *)
(* ------------------------------------------------------------------ *)

\* C24: no ion carries more than one "ionStep" limiter, however often its name is
\* in the ion step list
C24_OneLimiterPerIon ==
    \A i, j \in IonLimiterCalls : calls[i].who = calls[j].who => i = j

(* ------------------------------------------------------------------ *)
(* C25                                                                 *)
(* ------------------------------------------------------------------ *)

\* the step-limiter attachments made so far, in order
LimiterSequence == SelectSeq(calls, LAMBDA c : c.op = "AddDiscreteProcess")

\* C25: the outcome of resolution is a function of the physics configuration alone,
\* the same for every nThreads: success or fatal exit, the four slots and the
\* hadronic sequence are those one resolution of the configuration yields, the cut
\* calls are those of the configured lengths, and the limiter attachments those of the
\* particle table and the ion step list
C25_ThreadsDoNotReachResolution ==
    Resolved =>
        /\ pc = "exited" <=> FirstResolution.exit = 1
        /\ fDecPhysicsList = FirstResolution.fDecPhysicsList
        /\ fRadDecPhysicsList = FirstResolution.fRadDecPhysicsList
        /\ fEmPhysicsList = FirstResolution.fEmPhysicsList
        /\ fEmPhysicsListName = FirstResolution.fEmPhysicsListName
        /\ fHadronPhys = FirstResolution.fHadronPhys
        /\ emCounter = FirstResolution.emCounter
        /\ CutsApplied => cutCalls = CutCalls(cuts)
        /\ ProcessesBuilt =>
              LimiterSequence = FixedLimiters(particleTable, Len(NamedParticles))
                                \o IonLimiters(ionStepList)

\* a run with four threads on an MT run manager has got through engine
\* initialization with an EM list and a hadronic list, cuts and limiters in place
C25_Witness ==
    /\ pc = "initialized"
    /\ commandLineParameters.nThreads = 4
    /\ runManager = [ type |-> "G4MTRunManager", threads |-> 4 ]
    /\ fEmPhysicsList # Null
    /\ fHadronPhys # << >>
    /\ cutCalls # << >>
    /\ LimiterSequence # << >>

(* ------------------------------------------------------------------ *)
(* C26                                                                 *)
(* ------------------------------------------------------------------ *)

====
